---- MODULE Spec2Model ----
(***************************************************************************)
(* Verification model of parts of the components repository: the CDK       *)
(* accordion item, the snack-bar container, the Material sanity checks,    *)
(* the nested tree control, the fullscreen overlay container, the          *)
(* typeInElement test helper, the FAB default colour and the input-names   *)
(* migration.                                                              *)
(* Every subsystem has its own specification over its own variables; the   *)
(* variables of the other subsystems stay at their initial values.         *)
(***************************************************************************)
EXTENDS Integers, Sequences, FiniteSets, TLC

VARIABLES
  \* ---- accordion (src/cdk/accordion/accordion-item.ts)
  nextId,        \* module-level counter of accordion item ids
  status,        \* item -> "none" | "alive" | "destroyed"
  itemAcc,       \* item -> the accordion injected into it, or NoAcc
  expanded,      \* item -> CdkAccordionItem._expanded
  disabled,      \* item -> CdkAccordionItem._disabled
  multi,         \* accordion -> CdkAccordion.multi
  listeners,     \* UniqueSelectionDispatcher._listeners, in registration order
  events,        \* events emitted by the items during the last operation
  notified,      \* dispatcher notifications made during the last operation
  lastOp,        \* the last operation and its arguments
  outputs,       \* item -> the state of its opened, closed and destroyed emitters
  \* ---- snack bars (src/material/snack-bar/snack-bar-container.ts)
  bars,          \* the snack bar containers, in the order they were opened
  openedRef,     \* MatSnackBar._openedSnackBarRef: an index of bars, or 0
  \* ---- one snack bar container:
  \* [stage, cfg, firefox, live, role, classes, ngDevMode]
  cnt,
  \* ---- MatCommonModule: [done, env, warn]
  san,
  \* ---- NestedTreeControl and its data:
  \* [parent, order, leaf, track, selected, result, op]
  tree,
  \* ---- FullscreenOverlayContainer and its document:
  \* [apis, element, pending, stage, parent, eventName, listener]
  oc,
  \* ---- typeInElement and its element:
  \* [node, type, value, stage, log, args, before]
  ti,
  \* ---- FAB buttons and anchors
  fabs,          \* per class: whether built, the options given, color, defaultColor
  \* ---- InputNamesMigration and the template it visits:
  \* [data, template, start, stylesheet, sheetStart, edits, visited, stage]
  mig

accVars == <<nextId, status, itemAcc, expanded, disabled, multi,
             listeners, events, notified, lastOp, outputs>>

snackVars == <<bars, openedRef>>

cntVars == <<cnt>>

sanVars == <<san>>

treeVars == <<tree>>

ocVars == <<oc>>

tiVars == <<ti>>

fabVars == <<fabs>>

migVars == <<mig>>

vars == <<accVars, snackVars, cntVars, sanVars, treeVars, ocVars, tiVars, fabVars,
          migVars>>

\* What the actions of each subsystem leave alone.
accFrame == <<snackVars, cntVars, sanVars, treeVars, ocVars, tiVars, fabVars, migVars>>
snackFrame == <<accVars, cntVars, sanVars, treeVars, ocVars, tiVars, fabVars, migVars>>
cntFrame == <<accVars, snackVars, sanVars, treeVars, ocVars, tiVars, fabVars, migVars>>
sanFrame == <<accVars, snackVars, cntVars, treeVars, ocVars, tiVars, fabVars, migVars>>
treeFrame == <<accVars, snackVars, cntVars, sanVars, ocVars, tiVars, fabVars, migVars>>
ocFrame == <<accVars, snackVars, cntVars, sanVars, treeVars, tiVars, fabVars, migVars>>
tiFrame == <<accVars, snackVars, cntVars, sanVars, treeVars, ocVars, fabVars, migVars>>
fabFrame == <<accVars, snackVars, cntVars, sanVars, treeVars, ocVars, tiVars, migVars>>
migFrame == <<accVars, snackVars, cntVars, sanVars, treeVars, ocVars, tiVars, fabVars>>

\* The fields of the snack bar container.
cStage == cnt.stage       \* "none" | "constructed" | "attached" | "error"
cCfg == cnt.cfg           \* snackBarConfig
cFirefox == cnt.firefox   \* Platform.FIREFOX
cLive == cnt.live         \* _live
cRole == cnt.role         \* _role
cClasses == cnt.classes   \* the classes added to the host element
cNgDevMode == cnt.ngDevMode   \* the global ngDevMode: "undefined", "true", "false"

\* The fields of MatCommonModule.
sDone == san.done   \* _hasDoneGlobalChecks
sEnv == san.env     \* the injected configuration and the environment of the module
sWarn == san.warn   \* the warnings written to the console

\* The fields of the tree control and its data.
tParent == tree.parent       \* the data: node -> its parent, or 0 for a root
tOrder == tree.order         \* getChildren lists children in "asc" or "desc" order
tLeaf == tree.leaf           \* getChildren of a leaf: "array", "null", "undefined"
tTrack == tree.track         \* options.trackBy: "none", "id" or "parity"
tSelected == tree.selected   \* expansionModel: the selected keys
tResult == tree.result       \* the result of the last getDescendants call
tOp == tree.op               \* the last call: [op, node], node for getDescendants only

\* The fields of the overlay container and its document.
fsApis == oc.apis             \* the variants of the fullscreen API of the document
fsElement == oc.element       \* the element that is fullscreen, or "null"
fsPending == oc.pending       \* the change events the document has queued, by name
ocStage == oc.stage           \* "none", "created" (element exists), "destroyed"
ocParent == oc.parent         \* the parent of the container element, or "none"
ocEventName == oc.eventName   \* _fullScreenEventName
ocListener == oc.listener     \* the event name _fullScreenListener is registered under

\* The fields of the migration and of the last visitTemplate call.
migData == mig.data           \* InputNamesMigration.data
migTemplate == mig.template   \* template.content, as its elements in order
migStart == mig.start         \* template.start
migStylesheet == mig.stylesheet   \* stylesheet.content, a sequence of characters
migSheetStart == mig.sheetStart   \* stylesheet.start
migEdits == mig.edits         \* the calls made on the update recorder, in order
migVisited == mig.visited     \* the kinds of resource visited: "template", "stylesheet"
migStage == mig.stage         \* "idle", or "visited" once a resource was visited

\* The fields of the element typed into and of the last call.
tiNode == ti.node       \* nodeName of the element
tiType == ti.type       \* its type attribute, "null" when absent
tiValue == ti.value     \* its value, a sequence of characters
tiStage == ti.stage     \* "idle", "typed", "cleared" or "error" (TypeError thrown)
tiLog == ti.log         \* the events dispatched by the last call
tiArgs == ti.args       \* the arguments of the last typeInElement call
tiBefore == ti.before   \* the value before the last call

(***************************************************************************)
(* JavaScript values handed to a boolean input, and their coercion.        *)
(***************************************************************************)
JSValues == {"true", "false", "null", "''", "'false'"}

\* The values assigned to disabled and multi.
BoolInputs == {"true", "'false'"}

\* `${value}` for the values above
TemplateString(v) ==
  CASE v = "true"      -> "true"
    [] v = "false"     -> "false"
    [] v = "''"        -> ""
    [] v = "'false'"   -> "false"
    [] v = "'true'"    -> "true"
    [] OTHER           -> v

\* value != null && `${value}` !== 'false'
coerceBooleanProperty(v) ==
  v \notin {"null", "undefined"} /\ TemplateString(v) # "false"

(***************************************************************************)
(* Accordion                                                               *)
(***************************************************************************)
MaxItems == 2

Items == 0 .. (MaxItems - 1)
\* The accordions; an item belongs to one of them or stands alone (NoAcc).
Accordions == {1, 2}
NoAcc == 0
\* The accordion of the specification with a single accordion.
FirstAccordion == 1

\* The emitters of an item nobody has destroyed: none is completed and
\* destroyed has emitted nothing.
NewOutputs ==
  [opened |-> "open", closed |-> "open", destroyed |-> "open", destroyedEmits |-> 0]

ItemId(i) == <<"cdk-accordion-child", i>>
AccordionId(a) == <<"cdk-accordion", a>>

NoOp == [op |-> "none", item |-> -1, arg |-> "undefined"]
\* What lastOp records for an assignment to disabled or multi.
ConfigOp == [op |-> "config", item |-> -1, arg |-> "undefined"]

\* One emission of an item's EventEmitter; snap is the set of items that are
\* expanded at the moment the event is emitted (what a handler would observe).
Emit(s, i, ev, val) ==
  IF ev \in {"opened", "closed"} /\ outputs[i][ev] = "completed" THEN s
  ELSE [s EXCEPT !.events = Append(@, [item |-> i, ev |-> ev, val |-> val,
                                       snap |-> {j \in Items : s.expanded[j]}])]

RECURSIVE SetExpandedBool(_, _, _)

\* The listener with the test of the multi flag inverted.
SelectionListenerMultiInverted(s, j, id, accordionId) ==
  IF itemAcc[j] # NoAcc /\ multi[itemAcc[j]]
     /\ AccordionId(itemAcc[j]) = accordionId /\ ItemId(j) # id
  THEN SetExpandedBool(s, j, FALSE)
  ELSE s

\* The listener that leaves a disabled item alone.
SelectionListenerRespectsDisabled(s, j, id, accordionId) ==
  IF itemAcc[j] # NoAcc /\ ~multi[itemAcc[j]] /\ ~disabled[j]
     /\ AccordionId(itemAcc[j]) = accordionId /\ ItemId(j) # id
  THEN SetExpandedBool(s, j, FALSE)
  ELSE s

\* The listener without the comparison of the accordion id.
SelectionListenerAnyAccordion(s, j, id, accordionId) ==
  IF itemAcc[j] # NoAcc /\ ~multi[itemAcc[j]] /\ ItemId(j) # id
  THEN SetExpandedBool(s, j, FALSE)
  ELSE s

\* The callback passed to _expansionDispatcher.listen in the constructor.
SelectionListener(s, j, id, accordionId) ==
  IF itemAcc[j] # NoAcc /\ ~multi[itemAcc[j]]
     /\ AccordionId(itemAcc[j]) = accordionId /\ ItemId(j) # id
  THEN SetExpandedBool(s, j, FALSE)
  ELSE s

RECURSIVE NotifyFrom(_, _, _, _)
\* UniqueSelectionDispatcher.notify: every listener is called, in order.
NotifyFrom(s, k, id, name) ==
  IF k > Len(listeners) THEN s
  ELSE NotifyFrom(SelectionListener(s, listeners[k], id, name), k + 1, id, name)

DispatcherNotify(s, id, name) ==
  NotifyFrom([s EXCEPT !.notified = Append(@, [id |-> id, name |-> name])],
             1, id, name)

\* The accordion id an item notifies with.
NotifyName(i) == IF itemAcc[i] # NoAcc THEN AccordionId(itemAcc[i]) ELSE ItemId(i)

\* The setter without its test that the value changes.
SetExpandedBoolAlways(s, i, b) ==
  LET s1 == [s EXCEPT !.expanded[i] = b]
      s2 == Emit(s1, i, "expandedChange", b)
  IN  IF b
      THEN DispatcherNotify(Emit(s2, i, "opened", TRUE), ItemId(i), NotifyName(i))
      ELSE Emit(s2, i, "closed", FALSE)

\* The setter that notifies the dispatcher before it emits opened.
SetExpandedBoolNotifyFirst(s, i, b) ==
  IF s.expanded[i] = b THEN s
  ELSE LET s1 == [s EXCEPT !.expanded[i] = b]
           s2 == Emit(s1, i, "expandedChange", b)
       IN  IF b
           THEN Emit(DispatcherNotify(s2, ItemId(i), NotifyName(i)), i, "opened", TRUE)
           ELSE Emit(s2, i, "closed", FALSE)

\* The body of the expanded setter after coercion.
SetExpandedBool(s, i, b) ==
  IF s.expanded[i] = b THEN s
  ELSE LET s1 == [s EXCEPT !.expanded[i] = b]
           s2 == Emit(s1, i, "expandedChange", b)
       IN  IF b
           THEN DispatcherNotify(Emit(s2, i, "opened", TRUE), ItemId(i), NotifyName(i))
           ELSE Emit(s2, i, "closed", FALSE)

\* set expanded(expanded)
SetExpanded(s, i, v) == SetExpandedBool(s, i, coerceBooleanProperty(v))

Start == [expanded |-> expanded, events |-> <<>>, notified |-> <<>>]

Commit(s, op) ==
  /\ expanded' = s.expanded
  /\ events' = s.events
  /\ notified' = s.notified
  /\ lastOp' = op
  /\ UNCHANGED accFrame

SnackIdle ==
  /\ bars = <<>>
  /\ openedRef = 0

NoCfg ==
  [politeness |-> "undefined", announcementMessage |-> "undefined",
   horizontalPosition |-> "undefined", verticalPosition |-> "undefined",
   panelClass |-> "undefined"]

CntIdle ==
  cnt = [stage |-> "none", cfg |-> NoCfg, firefox |-> FALSE,
         live |-> "undefined", role |-> "undefined", classes |-> {},
         ngDevMode |-> "undefined"]

\* The configuration true, outside dev mode.
NoEnv ==
  [checks |-> [kind |-> "true", doctype |-> FALSE, theme |-> FALSE, version |-> FALSE],
   devMode |-> FALSE, testEnv |-> FALSE, hasDoctype |-> TRUE, hasBody |-> TRUE,
   hasGetComputedStyle |-> TRUE, computed |-> "none", versionsMatch |-> TRUE]

SanIdle == san = [done |-> FALSE, env |-> NoEnv, warn |-> {}]

MaxNodes == 4
Nodes == 1 .. MaxNodes

TreeIdle ==
  tree = [parent |-> [n \in Nodes |-> 0], order |-> "asc", leaf |-> "array",
          track |-> "none", selected |-> {}, result |-> <<>>,
          op |-> [op |-> "none", node |-> 0]]

OcIdle ==
  oc = [apis |-> {}, element |-> "null", pending |-> {}, stage |-> "none",
        parent |-> "none", eventName |-> "undefined", listener |-> "undefined"]

TiIdle ==
  ti = [node |-> "input", type |-> "null", value |-> <<>>, stage |-> "idle",
        log |-> <<>>, args |-> <<>>, before |-> <<>>]

FabClasses == {"MatFabButton", "MatMiniFabButton", "MatFabAnchor", "MatMiniFabAnchor"}

\* A class that has not been instantiated.
NoFab ==
  [built |-> FALSE, options |-> [given |-> FALSE, color |-> "undefined"],
   defaultColor |-> "undefined", color |-> "undefined"]

FabIdle == fabs = [c \in FabClasses |-> NoFab]

MigIdle ==
  mig = [data |-> <<>>, template |-> <<>>, start |-> 0, stylesheet |-> <<>>,
         sheetStart |-> 0, edits |-> <<>>, visited |-> {}, stage |-> "idle"]

AccIdle ==
  /\ nextId = 0
  /\ status = [i \in Items |-> "none"]
  /\ itemAcc = [i \in Items |-> NoAcc]
  /\ expanded = [i \in Items |-> FALSE]
  /\ disabled = [i \in Items |-> FALSE]
  /\ multi = [a \in Accordions |-> FALSE]
  /\ listeners = <<>>
  /\ events = <<>>
  /\ notified = <<>>
  /\ lastOp = NoOp
  /\ outputs = [i \in Items |-> NewOutputs]

AccInit ==
  /\ AccIdle /\ SnackIdle /\ CntIdle /\ SanIdle /\ TreeIdle
  /\ OcIdle /\ TiIdle /\ FabIdle /\ MigIdle

\* new CdkAccordionItem(accordion, ...): takes the next id and registers its
\* listener with the dispatcher.
Construct(a) ==
  /\ nextId < MaxItems
  /\ nextId' = nextId + 1
  /\ status' = [status EXCEPT ![nextId] = "alive"]
  /\ itemAcc' = [itemAcc EXCEPT ![nextId] = a]
  /\ listeners' = Append(listeners, nextId)
  /\ Commit(Start, [op |-> "construct", item |-> nextId, arg |-> "undefined"])
  /\ UNCHANGED <<disabled, multi, outputs>>

\* item.expanded = v
AssignExpanded(i, v) ==
  /\ status[i] = "alive"
  /\ Commit(SetExpanded(Start, i, v), [op |-> "assign", item |-> i, arg |-> v])
  /\ UNCHANGED <<nextId, status, itemAcc, disabled, multi, listeners, outputs>>

\* toggle() without its test of disabled.
ToggleIgnoresDisabled(i) ==
  /\ status[i] = "alive"
  /\ Commit(SetExpanded(Start, i, IF expanded[i] THEN "false" ELSE "true"),
            [op |-> "toggle", item |-> i, arg |-> "undefined"])
  /\ UNCHANGED <<nextId, status, itemAcc, disabled, multi, listeners, outputs>>

\* toggle()
Toggle(i) ==
  /\ status[i] = "alive"
  /\ Commit(IF ~disabled[i]
            THEN SetExpanded(Start, i, IF expanded[i] THEN "false" ELSE "true")
            ELSE Start,
            [op |-> "toggle", item |-> i, arg |-> "undefined"])
  /\ UNCHANGED <<nextId, status, itemAcc, disabled, multi, listeners, outputs>>

\* close()
Close(i) ==
  /\ status[i] = "alive"
  /\ Commit(IF ~disabled[i] THEN SetExpanded(Start, i, "false") ELSE Start,
            [op |-> "close", item |-> i, arg |-> "undefined"])
  /\ UNCHANGED <<nextId, status, itemAcc, disabled, multi, listeners, outputs>>

\* open()
Open(i) ==
  /\ status[i] = "alive"
  /\ Commit(IF ~disabled[i] THEN SetExpanded(Start, i, "true") ELSE Start,
            [op |-> "open", item |-> i, arg |-> "undefined"])
  /\ UNCHANGED <<nextId, status, itemAcc, disabled, multi, listeners, outputs>>

\* item.disabled = v
AssignDisabled(i, v) ==
  /\ status[i] = "alive"
  /\ disabled' = [disabled EXCEPT ![i] = coerceBooleanProperty(v)]
  /\ Commit(Start, ConfigOp)
  /\ UNCHANGED <<nextId, status, itemAcc, multi, listeners, outputs>>

\* accordion.multi = v
AssignMulti(a, v) ==
  /\ multi' = [multi EXCEPT ![a] = coerceBooleanProperty(v)]
  /\ Commit(Start, ConfigOp)
  /\ UNCHANGED <<nextId, status, itemAcc, disabled, listeners, outputs>>

\* The subscriber without its test of disabled.
OpenCloseAllSubscriberIgnoresDisabled(s, j, v) == SetExpanded(s, j, v)

\* The callback _subscribeToOpenCloseAllActions subscribes to
\* accordion._openCloseAllActions, in item j for the emitted value v.
OpenCloseAllSubscriber(s, j, v) ==
  IF ~disabled[j] THEN SetExpanded(s, j, v) ELSE s

RECURSIVE OpenCloseAllFrom(_, _, _, _)
\* accordion._openCloseAllActions.next(v): the subscribers run in the order
\* they subscribed. An item subscribes in its constructor right after it
\* registers its listener and unsubscribes in ngOnDestroy right after it
\* removes it, so the subscribers of accordion a are the items of a among the
\* listeners, in that order.
OpenCloseAllFrom(s, k, a, v) ==
  IF k > Len(listeners) THEN s
  ELSE OpenCloseAllFrom(IF itemAcc[listeners[k]] = a
                        THEN OpenCloseAllSubscriber(s, listeners[k], v)
                        ELSE s,
                        k + 1, a, v)

\* accordion.openAll(): emits true when the accordion is multi, and nothing
\* otherwise. lastOp.item holds the accordion.
OpenAll(a) ==
  /\ a \in Accordions
  /\ Commit(IF multi[a] THEN OpenCloseAllFrom(Start, 1, a, "true") ELSE Start,
            [op |-> "openAll", item |-> a, arg |-> "true"])
  /\ UNCHANGED <<nextId, status, itemAcc, disabled, multi, listeners, outputs>>

\* accordion.closeAll(): emits false.
CloseAll(a) ==
  /\ a \in Accordions
  /\ Commit(OpenCloseAllFrom(Start, 1, a, "false"),
            [op |-> "closeAll", item |-> a, arg |-> "false"])
  /\ UNCHANGED <<nextId, status, itemAcc, disabled, multi, listeners, outputs>>

\* EventEmitter.complete()
Complete(o, name) == [o EXCEPT ![name] = "completed"]

\* destroyed.emit(): nothing once the emitter is completed
EmitDestroyed(o) ==
  IF o.destroyed = "completed" THEN o
  ELSE [o EXCEPT !.destroyedEmits = @ + 1]

\* ngOnDestroy that leaves the listener registered and the subscription open.
DestroyKeepsListener(i) ==
  /\ status[i] = "alive"
  /\ status' = [status EXCEPT ![i] = "destroyed"]
  /\ outputs' = [outputs EXCEPT ![i] =
       Complete(EmitDestroyed(Complete(Complete(@, "opened"), "closed")), "destroyed")]
  /\ Commit(Start, [op |-> "destroy", item |-> i, arg |-> "undefined"])
  /\ UNCHANGED <<nextId, itemAcc, disabled, multi, listeners>>

\* ngOnDestroy: opened and closed complete, destroyed emits and completes,
\* the unique-selection listener is removed and the subscription to the
\* accordion's actions is closed.
Destroy(i) ==
  /\ status[i] = "alive"
  /\ status' = [status EXCEPT ![i] = "destroyed"]
  /\ outputs' = [outputs EXCEPT ![i] =
       Complete(EmitDestroyed(Complete(Complete(@, "opened"), "closed")), "destroyed")]
  /\ listeners' = SelectSeq(listeners, LAMBDA j : j # i)
  /\ Commit(Start, [op |-> "destroy", item |-> i, arg |-> "undefined"])
  /\ UNCHANGED <<nextId, itemAcc, disabled, multi>>

\* One accordion and standalone items.
AccNext ==
  \/ \E a \in {FirstAccordion, NoAcc} : Construct(a)
  \/ \E i \in Items, v \in JSValues : AssignExpanded(i, v)
  \/ \E i \in Items : Toggle(i)
  \/ \E i \in Items : Close(i)
  \/ \E i \in Items : Open(i)
  \/ \E i \in Items, v \in BoolInputs : AssignDisabled(i, v)
  \/ \E v \in BoolInputs : AssignMulti(FirstAccordion, v)
  \/ OpenAll(FirstAccordion)
  \/ CloseAll(FirstAccordion)
  \/ \E i \in Items : Destroy(i)

SpecAccordion == AccInit /\ [][AccNext]_vars

\* The live items of accordion a that are expanded.
ExpandedIn(a) ==
  {i \in Items : status[i] = "alive" /\ itemAcc[i] = a /\ expanded[i]}

\* The events of item i among evs, in order.
EventsOf(evs, i) == SelectSeq(evs, LAMBDA e : e.item = i)

\* evs is what an item whose expanded was `before` emits for a run of actual
\* changes: per change one expandedChange with the new value, then one opened
\* (new value true) or closed (new value false).
IsChangeRun(evs, before) ==
  /\ Len(evs) % 2 = 0
  /\ \A k \in 1 .. (Len(evs) \div 2) :
       LET v == IF k % 2 = 1 THEN ~before ELSE before
       IN  /\ evs[2 * k - 1].ev = "expandedChange"
           /\ evs[2 * k - 1].val = v
           /\ evs[2 * k].ev = IF v THEN "opened" ELSE "closed"

\* C1: in an accordion whose multi flag stays false, no operation (construct,
\* open, close, toggle, assignment to expanded or disabled, destroy) leads
\* from at most one expanded live item to more than one. No item is expanded
\* initially, so while multi is false throughout at most one item of the
\* accordion is expanded after every completed operation.
C1_AtMostOneExpanded ==
  [][\A a \in Accordions :
       (~multi[a] /\ ~multi'[a] /\ Cardinality(ExpandedIn(a)) <= 1)
         => Cardinality(ExpandedIn(a))' <= 1]_vars

\* C1 witness: an item of a single-expansion accordion was just expanded, a
\* live sibling was collapsed by the dispatcher, and one item is expanded.
C1_Witness ==
  \E i \in Items, j \in Items :
    /\ i # j /\ status[i] = "alive" /\ status[j] = "alive"
    /\ itemAcc[i] # NoAcc /\ itemAcc[j] = itemAcc[i] /\ ~multi[itemAcc[i]]
    /\ lastOp.op \in {"open", "toggle", "assign"} /\ lastOp.item = i
    /\ expanded[i] /\ ~expanded[j]
    /\ \E k \in 1 .. Len(events) : events[k].item = j /\ events[k].ev = "closed"
    /\ ExpandedIn(itemAcc[i]) = {i}

\* C10: in every operation each item emits exactly the events of its actual
\* changes of expanded (one expandedChange with the new value and one opened
\* or closed per change, nothing when its value does not change), the
\* dispatcher is notified once per opening, and an assignment of a value that
\* coerces to the current value emits nothing and notifies nobody.
C10_EventsMatchChanges ==
  [][IF events' = <<>>
     THEN notified' = <<>> /\ expanded' = expanded
     ELSE /\ \A i \in Items :
               LET evs == EventsOf(events', i)
               IN  /\ IsChangeRun(evs, expanded[i])
                   /\ expanded'[i] = IF (Len(evs) \div 2) % 2 = 1
                                     THEN ~expanded[i] ELSE expanded[i]
                   /\ (expanded'[i] = expanded[i] => evs = <<>>)
          /\ Len(notified') =
               Cardinality({k \in 1 .. Len(events') : events'[k].ev = "opened"})
          /\ ~(lastOp'.op = "assign"
                /\ coerceBooleanProperty(lastOp'.arg) = expanded[lastOp'.item])]_vars

\* C10 witness: '' (which coerces to true) was assigned to an item that was
\* already expanded, and nothing was emitted.
C10_Witness ==
  /\ lastOp.op = "assign" /\ lastOp.arg = "''"
  /\ expanded[lastOp.item]
  /\ events = <<>> /\ notified = <<>>

\* Two accordions and standalone items, all enabled and alive.
AccPairNext ==
  \/ \E a \in Accordions \cup {NoAcc} : Construct(a)
  \/ \E i \in Items, v \in JSValues : AssignExpanded(i, v)
  \/ \E i \in Items : Toggle(i)
  \/ \E i \in Items : Close(i)
  \/ \E i \in Items : Open(i)
  \/ \E a \in Accordions, v \in BoolInputs : AssignMulti(a, v)

SpecAccordionPair == AccInit /\ [][AccPairNext]_vars

\* The items the last operation opened.
OpenedBy(evs) == {evs[k].item : k \in {n \in 1 .. Len(evs) : evs[n].ev = "opened"}}

\* C11: toggle(), open() or close() on a disabled item changes no item's
\* expanded, emits no event and notifies nobody.
C11_DisabledBlocksMethods ==
  [][(lastOp'.op \in {"toggle", "open", "close"} /\ disabled[lastOp'.item])
       => (expanded' = expanded /\ events' = <<>> /\ notified' = <<>>)]_vars

\* C11 witness: toggle() was called on a disabled item that is expanded, and
\* nothing was emitted.
C11_Witness ==
  /\ lastOp.op = "toggle"
  /\ disabled[lastOp.item] /\ expanded[lastOp.item]
  /\ events = <<>> /\ notified = <<>>

\* C12: when an accordion emits an openAll / closeAll action (closeAll always
\* emits false, openAll emits true when the accordion is multi), every live
\* enabled item of the accordion ends with expanded equal to the emitted
\* value and every other item keeps its expanded.
C12_OpenCloseAllEnabledOnly ==
  [][(lastOp'.op \in {"openAll", "closeAll"}
      /\ (lastOp'.op = "openAll" => multi[lastOp'.item]))
       => \A j \in Items :
            expanded'[j] =
              IF status[j] = "alive" /\ itemAcc[j] = lastOp'.item /\ ~disabled[j]
              THEN lastOp'.op = "openAll"
              ELSE expanded[j]]_vars

\* C12 witness: openAll on a multi accordion opened an enabled item and left
\* a disabled item of the same accordion collapsed.
C12_Witness ==
  /\ lastOp.op = "openAll" /\ multi[lastOp.item]
  /\ \E i \in Items, j \in Items :
       /\ status[i] = "alive" /\ status[j] = "alive"
       /\ itemAcc[i] = lastOp.item /\ itemAcc[j] = lastOp.item
       /\ ~disabled[i] /\ expanded[i] /\ i \in OpenedBy(events)
       /\ disabled[j] /\ ~expanded[j]

\* C13: in an accordion whose multi is false, when an item becomes expanded
\* an expanded live sibling that is disabled ends collapsed.
C13_DisabledSiblingCollapsed ==
  [][\A i \in Items, j \in Items :
       (/\ i # j /\ status[i] = "alive" /\ status[j] = "alive"
        /\ itemAcc[i] # NoAcc /\ itemAcc[j] = itemAcc[i] /\ ~multi[itemAcc[i]]
        /\ disabled[j] /\ expanded[j]
        /\ ~expanded[i] /\ expanded'[i])
         => ~expanded'[j]]_vars

\* C13 witness: an item was opened and its disabled sibling emitted closed.
C13_Witness ==
  \E i \in Items, j \in Items :
    /\ i # j /\ status[i] = "alive" /\ status[j] = "alive"
    /\ itemAcc[i] # NoAcc /\ itemAcc[j] = itemAcc[i] /\ ~multi[itemAcc[i]]
    /\ lastOp.op \in {"open", "toggle", "assign"} /\ lastOp.item = i
    /\ expanded[i] /\ disabled[j] /\ ~expanded[j]
    /\ \E k \in 1 .. Len(events) : events[k].item = j /\ events[k].ev = "closed"

\* C14: when an item becomes expanded, no other item that is standalone, in
\* another accordion or in a multi accordion changes its expanded, and a
\* standalone item notifies the dispatcher once, with its own id as both ids.
C14_ExpandingLeavesOthers ==
  [][\A i \in Items :
       (~expanded[i] /\ expanded'[i]) =>
         /\ \A j \in Items \ {i} :
              (itemAcc[j] = NoAcc \/ itemAcc[j] # itemAcc[i] \/ multi[itemAcc[j]])
                => expanded'[j] = expanded[j]
         /\ itemAcc[i] = NoAcc
              => notified' = <<[id |-> ItemId(i), name |-> ItemId(i)]>>]_vars

\* C14 witness: an item of a single-expansion accordion was opened while an
\* item of the other single-expansion accordion stays expanded.
C14_Witness ==
  \E i \in Items, j \in Items :
    /\ i # j /\ status[i] = "alive" /\ status[j] = "alive"
    /\ itemAcc[i] \in Accordions /\ itemAcc[j] \in Accordions
    /\ itemAcc[i] # itemAcc[j]
    /\ ~multi[itemAcc[i]] /\ ~multi[itemAcc[j]]
    /\ lastOp.op \in {"open", "toggle", "assign"} /\ lastOp.item = i
    /\ i \in OpenedBy(events)
    /\ expanded[i] /\ expanded[j]

\* What ngOnDestroy leaves in the emitters of an item.
DestroyedOutputs ==
  [opened |-> "completed", closed |-> "completed", destroyed |-> "completed",
   destroyedEmits |-> 1]

\* C15: a destroyed item has its opened, closed and destroyed emitters
\* completed and destroyed has emitted exactly once (and never before
\* ngOnDestroy); no later operation changes the expanded of a destroyed item.
C15_DestroyedItemIsInert ==
  /\ [](\A i \in Items :
          outputs[i] = IF status[i] = "destroyed" THEN DestroyedOutputs ELSE NewOutputs)
  /\ [][\A i \in Items :
          status[i] = "destroyed" => expanded'[i] = expanded[i]]_vars

\* C15 witness: a destroyed item is still expanded after a sibling of its
\* single-expansion accordion was opened.
C15_Witness ==
  \E i \in Items, j \in Items :
    /\ i # j /\ status[i] = "destroyed" /\ status[j] = "alive"
    /\ itemAcc[i] # NoAcc /\ itemAcc[j] = itemAcc[i] /\ ~multi[itemAcc[i]]
    /\ outputs[i] = DestroyedOutputs
    /\ j \in OpenedBy(events)
    /\ expanded[i] /\ expanded[j]

\* C16: when item a of an accordion whose multi is false becomes expanded
\* while a live sibling b is expanded, the operation emits first
\* a.expandedChange(true), then a.opened with both a and b expanded at that
\* moment, and later b.expandedChange(false) directly followed by b.closed,
\* which are the only events of b.
C16_OpenedBeforeSiblingCloses ==
  [][\A a \in Items, b \in Items :
       (/\ a # b /\ status[a] = "alive" /\ status[b] = "alive"
        /\ itemAcc[a] # NoAcc /\ itemAcc[b] = itemAcc[a] /\ ~multi[itemAcc[a]]
        /\ expanded[b] /\ ~expanded[a] /\ expanded'[a])
         => /\ Len(events') >= 4
            /\ events'[1].item = a /\ events'[1].ev = "expandedChange"
            /\ events'[1].val = TRUE
            /\ events'[2].item = a /\ events'[2].ev = "opened"
            /\ {a, b} \subseteq events'[2].snap
            /\ \E k \in 3 .. (Len(events') - 1) :
                 /\ events'[k].item = b /\ events'[k].ev = "expandedChange"
                 /\ events'[k].val = FALSE
                 /\ events'[k + 1].item = b /\ events'[k + 1].ev = "closed"
                 /\ EventsOf(events', b) = <<events'[k], events'[k + 1]>>]_vars

\* C16 witness: the four events of one opening, with both items expanded
\* when opened is emitted.
C16_Witness ==
  \E a \in Items, b \in Items :
    /\ a # b /\ Len(events) = 4
    /\ events[1].item = a /\ events[1].ev = "expandedChange"
    /\ events[2].item = a /\ events[2].ev = "opened"
    /\ events[2].snap = {a, b}
    /\ events[3].item = b /\ events[3].ev = "expandedChange"
    /\ events[4].item = b /\ events[4].ev = "closed"
    /\ expanded[a] /\ ~expanded[b]

(***************************************************************************)
(* Snack bars: MatSnackBarContainer (enter, exit, onAnimationEnd,          *)
(* _completeExit, ngOnDestroy, _screenReaderAnnounce) driven by the        *)
(* MatSnackBar service and MatSnackBarRef.                                 *)
(***************************************************************************)
MaxSnackBars == 3

Bars == 1 .. Len(bars)

\* A container right after construction.
NewBar ==
  [anim     |-> "void",   \* _animationState
   matExit  |-> FALSE,    \* the mat-exit attribute of the host element
   destroyed |-> FALSE,   \* _destroyed
   announce |-> "none",   \* _announceTimeoutId: none, scheduled (timer pending), spent
   animQ    |-> <<>>,     \* started animations whose done callback is due: <<from, to>>
   exitSubs |-> 0,        \* subscriptions of _completeExit to onMicrotaskEmpty
   exited   |-> FALSE,    \* _onExit has emitted and completed
   entered  |-> FALSE,    \* _onEnter has emitted and completed
   waiter   |-> 0]        \* the snack bar that enters when this one is dismissed

\* The animation trigger follows _animationState: a change of state of a
\* container that is still in the document starts an animation whose done
\* callback is delivered later.
Animate(b, to) ==
  IF b.anim = to THEN b
  ELSE IF b.destroyed THEN [b EXCEPT !.anim = to]
  ELSE [b EXCEPT !.anim = to, !.animQ = Append(@, <<b.anim, to>>)]

\* _screenReaderAnnounce()
ScreenReaderAnnounce(b) ==
  IF b.announce = "none" THEN [b EXCEPT !.announce = "scheduled"] ELSE b

\* enter()
ContainerEnter(b) ==
  IF ~b.destroyed THEN ScreenReaderAnnounce(Animate(b, "visible")) ELSE b

\* exit() that leaves out the mat-exit attribute.
ContainerExitNoAttribute(b) ==
  [Animate(b, "hidden") EXCEPT
     !.announce = IF @ = "scheduled" THEN "spent" ELSE @]

\* exit()
ContainerExit(b) ==
  [Animate(b, "hidden") EXCEPT
     !.matExit = TRUE,
     !.announce = IF @ = "scheduled" THEN "spent" ELSE @]

\* _completeExit()
CompleteExit(b) == [b EXCEPT !.exitSubs = @ + 1]

\* onAnimationEnd(event)
OnAnimationEnd(b, from, to) ==
  LET b1 == IF (to = "void" /\ from # "void") \/ to = "hidden"
            THEN CompleteExit(b) ELSE b
  IN  IF to = "visible" THEN [b1 EXCEPT !.entered = TRUE] ELSE b1

\* ngOnDestroy(), run when the overlay of the container is disposed; the
\* removal of the host element animates it to the void state.
ContainerDestroy(b) ==
  [CompleteExit([b EXCEPT !.destroyed = TRUE]) EXCEPT
     !.animQ = Append(@, <<b.anim, "void">>)]

\* MatSnackBarRef.dismiss(): exits the container unless afterDismissed is closed.
RefDismiss(B, c) ==
  IF ~B[c].exited THEN [B EXCEPT ![c] = ContainerExit(B[c])] ELSE B

\* MatSnackBarRef._finishDismiss(), run when the container's _onExit emits:
\* the overlay is disposed and afterDismissed emits, which clears the
\* service's reference and enters the snack bar that waits for this one.
FinishDismiss(B, c) ==
  LET B1 == [B EXCEPT ![c] = [ContainerDestroy(B[c]) EXCEPT !.exited = TRUE]]
      w  == B[c].waiter
  IN  IF w # 0 THEN [B1 EXCEPT ![w] = ContainerEnter(B1[w])] ELSE B1

\* MatSnackBar._animateSnackBar for the new snack bar n.
AnimateSnackBar(B, n) ==
  IF openedRef # 0
  THEN RefDismiss([B EXCEPT ![openedRef].waiter = n], openedRef)
  ELSE [B EXCEPT ![n] = ContainerEnter(B[n])]

SnackInit == AccInit

\* MatSnackBar.open / openFromComponent / openFromTemplate
SnackOpen ==
  /\ Len(bars) < MaxSnackBars
  /\ bars' = AnimateSnackBar(Append(bars, NewBar), Len(bars) + 1)
  /\ openedRef' = Len(bars) + 1
  /\ UNCHANGED snackFrame

\* snackBarRef.dismiss(), by the application, the action or the duration timer
SnackDismiss(c) ==
  /\ c \in Bars
  /\ bars' = RefDismiss(bars, c)
  /\ UNCHANGED <<openedRef, snackFrame>>

\* The done callback of the oldest started animation of container c.
AnimationDone(c) ==
  /\ c \in Bars
  /\ bars[c].animQ # <<>>
  /\ LET ev == Head(bars[c].animQ)
     IN  bars' = [bars EXCEPT
                    ![c] = OnAnimationEnd([bars[c] EXCEPT !.animQ = Tail(@)],
                                          ev[1], ev[2])]
  /\ UNCHANGED <<openedRef, snackFrame>>

\* NgZone.onMicrotaskEmpty emits: the subscriptions of _completeExit fire.
ZoneStable(c) ==
  /\ c \in Bars
  /\ bars[c].exitSubs > 0
  /\ LET B0 == [bars EXCEPT ![c].exitSubs = 0]
     IN  IF bars[c].exited
         THEN bars' = B0 /\ UNCHANGED openedRef
         ELSE /\ bars' = FinishDismiss(B0, c)
              /\ openedRef' = IF openedRef = c THEN 0 ELSE openedRef
  /\ UNCHANGED snackFrame

\* The announce timeout of container c fires: the content is moved to the
\* live region and _onAnnounce emits; the timer is spent.
AnnounceTimeout(c) ==
  /\ c \in Bars
  /\ bars[c].announce = "scheduled"
  /\ bars' = [bars EXCEPT ![c].announce = "spent"]
  /\ UNCHANGED <<openedRef, snackFrame>>

SnackNext ==
  \/ SnackOpen
  \/ \E c \in 1 .. MaxSnackBars : SnackDismiss(c)
  \/ \E c \in 1 .. MaxSnackBars : AnimationDone(c)
  \/ \E c \in 1 .. MaxSnackBars : ZoneStable(c)
  \/ \E c \in 1 .. MaxSnackBars : AnnounceTimeout(c)

SpecSnackBar == SnackInit /\ [][SnackNext]_vars

\* A snack bar that is showing: entered the view and not dismissed.
Showing(c) ==
  /\ ~bars[c].destroyed
  /\ bars[c].anim = "visible"
  /\ ~bars[c].matExit

\* C2: at most one snack bar is showing (visible and not exiting), and every
\* snack bar other than the one opened last has been dismissed: it is marked
\* as exiting or already destroyed.
C2_OneSnackBar ==
  /\ Cardinality({c \in Bars : Showing(c)}) <= 1
  /\ \A c \in Bars : c < Len(bars) => (bars[c].matExit \/ bars[c].destroyed)

\* C2 witness: a snack bar was opened while an older one was showing; the
\* older one has exited and is destroyed, the newer one is showing.
C2_Witness ==
  /\ Len(bars) >= 2
  /\ \A c \in Bars : c < Len(bars) => bars[c].destroyed /\ bars[c].entered
  /\ Showing(Len(bars))

(***************************************************************************)
(* One snack bar container: the constructor (aria-live value and role) and *)
(* the attach methods (host classes).                                      *)
(***************************************************************************)
Politeness == {"undefined", "polite", "assertive", "off"}
AnnouncementMessages == {"undefined", "", "Saved"}
HorizontalPositions == {"start", "center", "end"}
VerticalPositions == {"top", "bottom"}
PanelClasses == {"undefined", "one", "list"}

SnackConfigs ==
  [politeness : Politeness, announcementMessage : AnnouncementMessages,
   horizontalPosition : HorizontalPositions, verticalPosition : VerticalPositions,
   panelClass : PanelClasses]

\* !value for a string or undefined
Falsy(v) == v \in {"undefined", ""}

\* The constructor's aria-live value, with announcementMessage ignored.
ContainerLiveIgnoresMessage(cfg) ==
  IF cfg.politeness = "assertive" THEN "assertive"
  ELSE IF cfg.politeness = "off" THEN "off"
  ELSE "polite"

\* The constructor's choice of the aria-live value.
ContainerLive(cfg) ==
  IF cfg.politeness = "assertive" /\ Falsy(cfg.announcementMessage) THEN "assertive"
  ELSE IF cfg.politeness = "off" THEN "off"
  ELSE "polite"

\* The constructor's choice of the role.
ContainerRole(live, firefox) ==
  IF firefox
  THEN IF live = "polite" THEN "status"
       ELSE IF live = "assertive" THEN "alert"
       ELSE "undefined"
  ELSE "undefined"

\* _applySnackBarClasses()
SnackBarClasses(cfg) ==
  (CASE cfg.panelClass = "undefined" -> {}
     [] cfg.panelClass = "one" -> {"panel-a"}
     [] cfg.panelClass = "list" -> {"panel-a", "panel-b"})
  \cup (IF cfg.horizontalPosition = "center" THEN {"mat-snack-bar-center"} ELSE {})
  \cup (IF cfg.verticalPosition = "top" THEN {"mat-snack-bar-top"} ELSE {})

\* The values of the global ngDevMode: not defined, or set by the build.
NgDevModes == {"undefined", "true", "false"}

\* No container yet; the build fixes ngDevMode.
CntInit ==
  /\ AccIdle /\ SnackIdle /\ SanIdle /\ TreeIdle
  /\ OcIdle /\ TiIdle /\ FabIdle /\ MigIdle
  /\ cnt \in [stage : {"none"}, cfg : {NoCfg}, firefox : {FALSE},
               live : {"undefined"}, role : {"undefined"}, classes : {{}},
               ngDevMode : NgDevModes]

\* _assertNotAttached(): whether it throws
AssertNotAttachedThrows ==
  cStage = "attached" /\ (cNgDevMode = "undefined" \/ cNgDevMode = "true")

\* new MatSnackBarContainer(..., platform, snackBarConfig)
ContainerConstruct(cfg, firefox) ==
  /\ cStage = "none"
  /\ cnt' = [cnt EXCEPT !.stage = "constructed",
                        !.cfg = cfg,
                        !.firefox = firefox,
                        !.live = ContainerLive(cfg),
                        !.role = ContainerRole(ContainerLive(cfg), firefox)]
  /\ UNCHANGED cntFrame

\* attachComponentPortal / attachTemplatePortal / attachDomPortal:
\* _assertNotAttached throws when content is attached already and ngDevMode
\* is undefined or true; otherwise the classes are applied and the portal is
\* attached.
ContainerAttach ==
  /\ cStage \in {"constructed", "attached"}
  /\ cnt' = IF AssertNotAttachedThrows
            THEN [cnt EXCEPT !.stage = "error"]
            ELSE [cnt EXCEPT !.stage = "attached",
                             !.classes = @ \cup SnackBarClasses(cCfg)]
  /\ UNCHANGED cntFrame

CntNext ==
  \/ \E cfg \in SnackConfigs, ff \in BOOLEAN : ContainerConstruct(cfg, ff)
  \/ ContainerAttach

SpecSnackContainer == CntInit /\ [][CntNext]_vars

\* C8: a container constructed without a configured politeness uses polite;
\* aria-live is assertive exactly when the configured politeness is assertive
\* and no announcementMessage is set, off when the configured politeness is
\* off, and polite in every other case; the role is set only on Firefox:
\* status for polite, alert for assertive, none for off.
C8_Politeness ==
  cStage # "none" =>
    LET assertive == cCfg.politeness = "assertive"
                       /\ cCfg.announcementMessage \in {"undefined", ""}
    IN  /\ (cCfg.politeness = "undefined" => cLive = "polite")
        /\ (cLive = "assertive" <=> assertive)
        /\ (cCfg.politeness = "off" => cLive = "off")
        /\ (~assertive /\ cCfg.politeness # "off" => cLive = "polite")
        /\ (~cFirefox => cRole = "undefined")
        /\ (cFirefox /\ cLive = "polite" => cRole = "status")
        /\ (cFirefox /\ cLive = "assertive" => cRole = "alert")
        /\ (cFirefox /\ cLive = "off" => cRole = "undefined")

\* C8 witness: on Firefox a container configured assertive with an
\* announcementMessage was constructed: it is polite with role status.
C8_Witness ==
  /\ cStage = "constructed"
  /\ cFirefox
  /\ cCfg.politeness = "assertive" /\ cCfg.announcementMessage = "Saved"
  /\ cLive = "polite" /\ cRole = "status"

(***************************************************************************)
(* MatCommonModule: the sanity checks run by the constructor.              *)
(***************************************************************************)
\* The values of MATERIAL_SANITY_CHECKS: the booleans and the granular objects.
SanityChecks ==
  {[kind |-> k, doctype |-> FALSE, theme |-> FALSE, version |-> FALSE] :
     k \in {"true", "false"}}
  \cup [kind : {"granular"}, doctype : BOOLEAN, theme : BOOLEAN, version : BOOLEAN]

\* The computed style of the theme marker element: null, or its display.
ComputedStyles == {"null", "none", "block"}

SanityEnvs ==
  [checks : SanityChecks, devMode : BOOLEAN, testEnv : BOOLEAN,
   hasDoctype : BOOLEAN, hasBody : BOOLEAN, hasGetComputedStyle : BOOLEAN,
   computed : ComputedStyles, versionsMatch : BOOLEAN]

\* (this._sanityChecks as GranularSanityChecks)[name]: undefined on a boolean.
GranularProperty(checks, name) ==
  IF checks.kind = "granular" THEN checks[name] ELSE FALSE

\* _checksAreEnabled()
ChecksAreEnabled(env) == env.devMode /\ ~env.testEnv

\* isEnabled of _checkDoctypeIsDefined
DoctypeCheckEnabled(env) ==
  ChecksAreEnabled(env)
    /\ (env.checks.kind = "true" \/ GranularProperty(env.checks, "doctype"))

\* isDisabled of _checkThemeIsPresent
ThemeCheckDisabled(env) ==
  ~ChecksAreEnabled(env)
    \/ (env.checks.kind = "false" \/ ~GranularProperty(env.checks, "theme"))

\* isEnabled of _checkCdkVersionMatch
VersionCheckEnabled(env) ==
  ChecksAreEnabled(env)
    /\ (env.checks.kind = "true" \/ GranularProperty(env.checks, "version"))

\* _checkDoctypeIsDefined()
CheckDoctypeIsDefined(env) ==
  IF DoctypeCheckEnabled(env) /\ ~env.hasDoctype THEN {"doctype"} ELSE {}

\* _checkThemeIsPresent()
CheckThemeIsPresent(env) ==
  IF ThemeCheckDisabled(env) \/ ~env.hasBody \/ ~env.hasGetComputedStyle THEN {}
  ELSE IF env.computed # "null" /\ env.computed # "none" THEN {"theme"}
  ELSE {}

\* _checkCdkVersionMatch()
CheckCdkVersionMatch(env) ==
  IF VersionCheckEnabled(env) /\ ~env.versionsMatch THEN {"version"} ELSE {}

SanInit == AccInit

\* new MatCommonModule(highContrastModeDetector, sanityChecks, document)
CommonModuleConstruct(env) ==
  /\ ~sDone
  /\ san' = [done |-> TRUE,
             env |-> env,
             warn |-> CheckDoctypeIsDefined(env) \cup CheckThemeIsPresent(env)
                        \cup CheckCdkVersionMatch(env)]
  /\ UNCHANGED sanFrame

SanNext == \E env \in SanityEnvs : CommonModuleConstruct(env)

SpecSanity == SanInit /\ [][SanNext]_vars

\* The theme is not loaded and the theme check can find that out.
ThemeMissing(env) ==
  env.hasBody /\ env.hasGetComputedStyle /\ env.computed = "block"

\* C3: in dev mode outside a test environment, with the configuration true
\* each of the three checks is enabled (a missing doctype, a missing theme and
\* a version mismatch are each warned about); with false no warning is made.
C3_BooleanSetsAllChecks ==
  (sDone /\ sEnv.devMode /\ ~sEnv.testEnv) =>
    /\ (sEnv.checks.kind = "true" =>
          /\ (~sEnv.hasDoctype => "doctype" \in sWarn)
          /\ (ThemeMissing(sEnv) => "theme" \in sWarn)
          /\ (~sEnv.versionsMatch => "version" \in sWarn))
    /\ (sEnv.checks.kind = "false" => sWarn = {})

(***************************************************************************)
(* NestedTreeControl: expandAll, getDescendants, _getDescendants; the      *)
(* expansion model and toggle / collapseAll of BaseTreeControl.            *)
(***************************************************************************)
\* The forests over Nodes: every node's parent is a node with a smaller
\* number, or 0 for a root.
Forests == {f \in [Nodes -> 0 .. MaxNodes] : \A n \in Nodes : f[n] < n}

RECURSIVE SortedSeq(_, _)
\* The members of set S in ascending ("asc") or descending order.
SortedSeq(S, order) ==
  IF S = {} THEN <<>>
  ELSE LET m == IF order = "asc"
                THEN CHOOSE x \in S : \A y \in S : x <= y
                ELSE CHOOSE x \in S : \A y \in S : x >= y
       IN  <<m>> \o SortedSeq(S \ {m}, order)

ChildrenOf(n) == SortedSeq({m \in Nodes : tParent[m] = n}, tOrder)

\* getChildren(dataNode): an array, or null / undefined for a leaf.
GetChildren(n) ==
  IF ChildrenOf(n) = <<>> /\ tLeaf # "array"
  THEN [kind |-> tLeaf, items |-> <<>>]
  ELSE [kind |-> "array", items |-> ChildrenOf(n)]

\* dataNodes: all root level nodes.
DataNodes == SortedSeq({m \in Nodes : tParent[m] = 0}, tOrder)

\* _trackByValue(node)
TrackByValue(n) ==
  CASE tTrack = "none"   -> n
    [] tTrack = "id"     -> 100 + n
    [] tTrack = "parity" -> n % 2

RECURSIVE GetDescendantsRec(_, _)
RECURSIVE GetDescendantsEach(_, _, _)

\* childrenNodes.forEach(child => this._getDescendants(descendants, child))
GetDescendantsEach(descendants, children, k) ==
  IF k > Len(children) THEN descendants
  ELSE GetDescendantsEach(GetDescendantsRec(descendants, children[k]), children, k + 1)

\* _getDescendants(descendants, dataNode); descendants is returned
GetDescendantsRec(descendants, n) ==
  LET pushed == Append(descendants, n)
      childrenNodes == GetChildren(n)
  IN  IF childrenNodes.kind = "array"
      THEN GetDescendantsEach(pushed, childrenNodes.items, 1)
      ELSE pushed

\* getDescendants that does not remove the node itself.
GetDescendantsKeepsNode(n) == GetDescendantsRec(<<>>, n)

\* getDescendants(dataNode)
GetDescendants(n) == Tail(GetDescendantsRec(<<>>, n))

RECURSIVE AllNodesFrom(_, _)
\* The reduce of expandAll that leaves the data node itself out.
AllNodesWithoutRoots(acc, k) ==
  IF k > Len(DataNodes) THEN acc
  ELSE AllNodesFrom(acc \o GetDescendants(DataNodes[k]), k + 1)

\* dataNodes.reduce((accumulator, dataNode) =>
\*   [...accumulator, ...this.getDescendants(dataNode), dataNode], [])
AllNodesFrom(acc, k) ==
  IF k > Len(DataNodes) THEN acc
  ELSE AllNodesFrom(acc \o GetDescendants(DataNodes[k]) \o <<DataNodes[k]>>, k + 1)

\* SelectionModel.select(...values) on the multiple-selection expansion model
SelectAll(selection, values) ==
  selection \cup {values[k] : k \in 1 .. Len(values)}

\* isExpanded(node)
IsExpanded(n) == TrackByValue(n) \in tSelected

TreeInit ==
  /\ AccIdle /\ SnackIdle /\ CntIdle /\ SanIdle
  /\ OcIdle /\ TiIdle /\ FabIdle /\ MigIdle
  /\ tree \in [parent : Forests, order : {"asc", "desc"},
               leaf : {"array", "null", "undefined"},
               track : {"none", "id", "parity"},
               selected : {{}}, result : {<<>>},
               op : {[op |-> "none", node |-> 0]}]

\* expandAll()
ExpandAll ==
  /\ tree' = [tree EXCEPT
       !.selected =
          LET allNodes == AllNodesFrom(<<>>, 1)
          IN  SelectAll({}, [k \in 1 .. Len(allNodes) |-> TrackByValue(allNodes[k])]),
       !.op = [op |-> "expandAll", node |-> 0]]
  /\ UNCHANGED treeFrame

\* collapseAll()
CollapseAll ==
  /\ tree' = [tree EXCEPT !.selected = {},
                          !.op = [op |-> "collapseAll", node |-> 0]]
  /\ UNCHANGED treeFrame

\* toggle(dataNode)
ToggleNode(n) ==
  /\ tree' = [tree EXCEPT
       !.selected = IF TrackByValue(n) \in tSelected
                    THEN tSelected \ {TrackByValue(n)}
                    ELSE tSelected \cup {TrackByValue(n)},
       !.op = [op |-> "toggle", node |-> 0]]
  /\ UNCHANGED treeFrame

\* getDescendants(dataNode), called by the application
CallGetDescendants(n) ==
  /\ tree' = [tree EXCEPT !.result = GetDescendants(n),
                          !.op = [op |-> "getDescendants", node |-> n]]
  /\ UNCHANGED treeFrame

TreeNext ==
  \/ ExpandAll
  \/ CollapseAll
  \/ \E n \in Nodes : ToggleNode(n)
  \/ \E n \in Nodes : CallGetDescendants(n)

SpecTree == TreeInit /\ [][TreeNext]_vars

RECURSIVE AncestorsOf(_)
\* The strict ancestors of node n in the data.
AncestorsOf(n) ==
  IF tParent[n] = 0 THEN {} ELSE {tParent[n]} \cup AncestorsOf(tParent[n])

StrictDescendants(n) == {m \in Nodes : n \in AncestorsOf(m)}

\* The position of node m among the children of its parent p.
ChildIndex(p, m) == CHOOSE k \in 1 .. Len(ChildrenOf(p)) : ChildrenOf(p)[k] = m

RECURSIVE NextAfterSubtree(_, _)
\* The node visited after the whole subtree of m in a depth-first pre-order
\* walk below top, or 0 when the walk ends there.
NextAfterSubtree(m, top) ==
  IF m = top THEN 0
  ELSE LET p == tParent[m]
           k == ChildIndex(p, m)
       IN  IF k < Len(ChildrenOf(p)) THEN ChildrenOf(p)[k + 1]
           ELSE NextAfterSubtree(p, top)

\* The successor of m in the depth-first pre-order walk of the subtree of top.
PreOrderSuccessor(m, top) ==
  IF ChildrenOf(m) # <<>> THEN ChildrenOf(m)[1] ELSE NextAfterSubtree(m, top)

\* C4: after expandAll every root and every descendant of every root is
\* expanded in the expansion model, under its trackBy key, whatever was
\* expanded before.
C4_ExpandAllExpandsAll ==
  tOp.op = "expandAll" =>
    \A r \in Nodes : tParent[r] = 0 =>
      /\ IsExpanded(r)
      /\ \A n \in StrictDescendants(r) : IsExpanded(n)

\* C4 witness: expandAll ran on a forest with two roots and a grandchild,
\* keyed by trackBy.
C4_Witness ==
  /\ tOp.op = "expandAll"
  /\ tTrack = "id"
  /\ Len(DataNodes) >= 2
  /\ \E n \in Nodes : Cardinality(AncestorsOf(n)) >= 2
  /\ tSelected = {100 + n : n \in Nodes}

\* C5: the result of getDescendants(node) holds every strict descendant of
\* node exactly once, never node itself, in depth-first pre-order: it starts
\* with the first child and every element is followed by its pre-order
\* successor within the subtree.
C5_DescendantsPreOrder ==
  tOp.op = "getDescendants" =>
    LET n == tOp.node
        r == tResult
    IN  /\ {r[k] : k \in 1 .. Len(r)} = StrictDescendants(n)
        /\ Len(r) = Cardinality(StrictDescendants(n))
        /\ \A k \in 1 .. Len(r) : r[k] # n
        /\ (Len(r) > 0 => r[1] = PreOrderSuccessor(n, n))
        /\ (Len(r) = 0 => PreOrderSuccessor(n, n) = 0)
        /\ \A k \in 1 .. Len(r) :
             PreOrderSuccessor(r[k], n) = IF k < Len(r) THEN r[k + 1] ELSE 0

\* C5 witness: getDescendants of a node with two children, the first of which
\* has a child of its own, where leaves answer null.
C5_Witness ==
  /\ tOp.op = "getDescendants"
  /\ tLeaf = "null"
  /\ Len(tResult) >= 3
  /\ Len(ChildrenOf(tOp.node)) >= 2
  /\ ChildrenOf(ChildrenOf(tOp.node)[1]) # <<>>

(***************************************************************************)
(* FullscreenOverlayContainer: _createContainer,                           *)
(* _adjustParentForFullscreenChange, _addFullscreenChangeListener,         *)
(* _getEventName, getFullscreenElement, ngOnDestroy, on a document that    *)
(* implements some of the vendor variants of the fullscreen API.           *)
(***************************************************************************)
\* The variants of the fullscreen API, in the order the code probes them.
FullscreenApis == <<"std", "webkit", "moz", "ms">>
ApiNames == {FullscreenApis[k] : k \in 1 .. Len(FullscreenApis)}

\* The elements of the document that can be made fullscreen.
PageElements == {"e1", "e2"}

\* The name of the change event of each variant.
ChangeEvent(api) ==
  CASE api = "std"    -> "fullscreenchange"
    [] api = "webkit" -> "webkitfullscreenchange"
    [] api = "moz"    -> "mozfullscreenchange"
    [] api = "ms"     -> "MSFullscreenChange"

\* document.fullscreenEnabled, webkitFullscreenEnabled, mozFullScreenEnabled,
\* msFullscreenEnabled
DocEnabled(api) == api \in fsApis

\* document.fullscreenElement, webkitFullscreenElement, mozFullScreenElement,
\* msFullscreenElement: "null" when nothing is fullscreen, "undefined" when
\* the document does not implement the variant.
DocElement(api) == IF api \in fsApis THEN fsElement ELSE "undefined"

RECURSIVE FirstEnabled(_)
\* The event name of the first variant from position k on that is enabled.
FirstEnabled(k) ==
  IF k > Len(FullscreenApis) THEN "undefined"
  ELSE IF DocEnabled(FullscreenApis[k]) THEN ChangeEvent(FullscreenApis[k])
  ELSE FirstEnabled(k + 1)

\* _getEventName(): the name returned and kept in _fullScreenEventName
GetEventName(current) ==
  IF current = "undefined" THEN FirstEnabled(1) ELSE current

RECURSIVE FirstElement(_)
\* a || b || c || d || null over the element properties from position k on
FirstElement(k) ==
  IF k > Len(FullscreenApis) THEN "null"
  ELSE IF DocElement(FullscreenApis[k]) \notin {"null", "undefined"}
       THEN DocElement(FullscreenApis[k])
  ELSE FirstElement(k + 1)

\* getFullscreenElement() that reads the standard property only.
GetFullscreenElementStandardOnly ==
  IF DocElement("std") \notin {"null", "undefined"} THEN DocElement("std") ELSE "null"

\* getFullscreenElement()
GetFullscreenElement == FirstElement(1)

\* _adjustParentForFullscreenChange(): the parent of the container element
\* afterwards, given whether the element exists and its parent now.
AdjustParentForFullscreenChange(exists, parent) ==
  IF ~exists THEN parent
  ELSE IF GetFullscreenElement # "null" THEN GetFullscreenElement
  ELSE "body"

OcInit ==
  /\ AccIdle /\ SnackIdle /\ CntIdle /\ SanIdle /\ TreeIdle
  /\ TiIdle /\ FabIdle /\ MigIdle
  /\ oc \in [apis : SUBSET ApiNames, element : {"null"}, pending : {{}},
             stage : {"none"}, parent : {"none"}, eventName : {"undefined"},
             listener : {"undefined"}]

\* getContainerElement() of OverlayContainer when no container element exists:
\* _createContainer() appends a new element to the body (super), adjusts its
\* parent and registers the listener.
CreateContainer ==
  /\ ocStage = "none"
  /\ oc' = [oc EXCEPT
       !.stage = "created",
       !.parent = AdjustParentForFullscreenChange(TRUE, "body"),
       !.eventName = GetEventName(ocEventName),
       !.listener = IF GetEventName(ocEventName) # "undefined"
                    THEN GetEventName(ocEventName) ELSE ocListener]
  /\ UNCHANGED ocFrame

\* The page makes element e fullscreen through a variant the document
\* implements; the document queues the change event of each variant.
RequestFullscreen(e) ==
  /\ fsApis # {}
  /\ fsElement # e
  /\ oc' = [oc EXCEPT !.element = e,
                      !.pending = {ChangeEvent(api) : api \in fsApis}]
  /\ UNCHANGED ocFrame

\* The page leaves fullscreen.
ExitFullscreen ==
  /\ fsElement # "null"
  /\ oc' = [oc EXCEPT !.element = "null",
                      !.pending = {ChangeEvent(api) : api \in fsApis}]
  /\ UNCHANGED ocFrame

\* The document dispatches a queued change event; the listener registered
\* under that name runs _adjustParentForFullscreenChange().
FullscreenChange(name) ==
  /\ name \in fsPending
  /\ oc' = [oc EXCEPT
       !.pending = fsPending \ {name},
       !.parent = IF ocListener = name
                  THEN AdjustParentForFullscreenChange(ocStage # "none", ocParent)
                  ELSE ocParent]
  /\ UNCHANGED ocFrame

\* ngOnDestroy(): super removes the container element from the document, then
\* the listener is removed.
OverlayDestroy ==
  /\ ocStage = "created"
  /\ oc' = [oc EXCEPT
       !.stage = "destroyed",
       !.parent = "none",
       !.listener = IF ocEventName # "undefined" /\ ocListener # "undefined"
                    THEN "undefined" ELSE ocListener]
  /\ UNCHANGED ocFrame

OcNext ==
  \/ CreateContainer
  \/ \E e \in PageElements : RequestFullscreen(e)
  \/ ExitFullscreen
  \/ \E api \in ApiNames : FullscreenChange(ChangeEvent(api))
  \/ OverlayDestroy

SpecOverlay == OcInit /\ [][OcNext]_vars

\* C6: while the container element exists, once the change event the
\* container listens to has been delivered (and right after creation), the
\* parent of the container element is the fullscreen element if there is one
\* and the body otherwise.
C6_ParentFollowsFullscreen ==
  (ocStage = "created" /\ ocListener \notin fsPending) =>
    ocParent = IF fsElement # "null" THEN fsElement ELSE "body"

\* C6 witness: on a document with only the webkit variant the container
\* element sits under the fullscreen element after the change event.
C6_Witness ==
  /\ ocStage = "created"
  /\ fsApis = {"webkit"}
  /\ ocListener = "webkitfullscreenchange"
  /\ fsPending = {}
  /\ fsElement = "e2"
  /\ ocParent = "e2"

(***************************************************************************)
(* MatFabButton, MatMiniFabButton, MatFabAnchor, MatMiniFabAnchor: the     *)
(* color chosen by the constructors from MAT_FAB_DEFAULT_OPTIONS.          *)
(***************************************************************************)
\* What is injected for MAT_FAB_DEFAULT_OPTIONS: nothing (null or undefined,
\* the parameter is optional), or an object whose color is a palette name or
\* undefined (absent counts as undefined).
FabOptions ==
  {[given |-> FALSE, color |-> "undefined"]}
    \cup [given : {TRUE}, color : {"undefined", "primary", "accent", "warn"}]

\* MAT_FAB_DEFAULT_OPTIONS_FACTORY()
MatFabDefaultOptionsFactory == [given |-> TRUE, color |-> "accent"]

\* const defaults = MAT_FAB_DEFAULT_OPTIONS_FACTORY()
FabDefaults == MatFabDefaultOptionsFactory

\* The color of the constructors with the provided options left unread.
FabColorIgnoresOptions(options) == FabDefaults.color

\* this._options = this._options || defaults;
\* this._options!.color || defaults.color
FabColor(options) ==
  LET opts == IF options.given THEN options ELSE FabDefaults
  IN  IF opts.color # "undefined" THEN opts.color ELSE FabDefaults.color

\* The color setter of the color mixin: an unset value falls back to
\* defaultColor.
MixinSetColor(value, defaultColor) ==
  IF value # "undefined" THEN value ELSE defaultColor

FabInit ==
  /\ AccIdle /\ SnackIdle /\ CntIdle /\ SanIdle /\ TreeIdle
  /\ OcIdle /\ TiIdle /\ FabIdle /\ MigIdle

\* new MatFabButton / MatMiniFabButton / MatFabAnchor / MatMiniFabAnchor
\* (..., _options); the four constructor bodies are the same:
\* this.color = this.defaultColor = <the chosen color>
FabConstruct(c, options) ==
  /\ ~fabs[c].built
  /\ fabs' = [fabs EXCEPT ![c] =
                [built |-> TRUE, options |-> options,
                 defaultColor |-> FabColor(options),
                 color |-> MixinSetColor(FabColor(options), FabColor(options))]]
  /\ UNCHANGED fabFrame

FabNext == \E c \in FabClasses, o \in FabOptions : FabConstruct(c, o)

SpecFab == FabInit /\ [][FabNext]_vars

\* C9: after construction of any of the four classes, color and defaultColor
\* are accent when no options are provided or the provided options have no
\* color, and are the color of the provided options otherwise.
C9_FabDefaultsToAccent ==
  \A c \in FabClasses :
    fabs[c].built =>
      LET expected ==
            IF ~fabs[c].options.given \/ fabs[c].options.color = "undefined"
            THEN "accent" ELSE fabs[c].options.color
      IN  fabs[c].color = expected /\ fabs[c].defaultColor = expected

\* C9 witness: a mini FAB anchor constructed without options is accent next
\* to a FAB button constructed with the color warn provided.
C9_Witness ==
  /\ fabs["MatMiniFabAnchor"].built
  /\ ~fabs["MatMiniFabAnchor"].options.given
  /\ fabs["MatMiniFabAnchor"].color = "accent"
  /\ fabs["MatFabButton"].built
  /\ fabs["MatFabButton"].options = [given |-> TRUE, color |-> "warn"]
  /\ fabs["MatFabButton"].color = "warn"
  /\ fabs["MatFabButton"].defaultColor = "warn"

(***************************************************************************)
(* typeInElement and clearElement. Strings are sequences of characters.    *)
(***************************************************************************)
MaxArgs == 2

PERIOD == 190

NodeNames == {"input", "textarea", "div"}

\* The values of the type attribute; "null" when the attribute is absent.
TypeAttributes == {"null", "password", "number", "date"}

incrementalInputTypes ==
  {"text", "email", "hidden", "password", "search", "tel", "url"}

\* c.toUpperCase().charCodeAt(0)
UpperCharCode(c) ==
  CASE c = "a" -> 65
    [] c = "1" -> 49
    [] c = "." -> 46
    [] c = "x" -> 88

\* A key: key and keyCode, each possibly undefined. As an argument a key
\* object may also carry a modifier; shift stands for the modifiers.
Key(keyDefined, key, codeDefined, keyCode) ==
  [kind |-> "object", text |-> <<>>, keyDefined |-> keyDefined, key |-> key,
   codeDefined |-> codeDefined, keyCode |-> keyCode, shift |-> FALSE]

\* The strings passed as keys: '', 'a', '.', '1a', '1.'
StringArgs ==
  {[kind |-> "string", text |-> t, keyDefined |-> FALSE, key |-> <<>>,
    codeDefined |-> FALSE, keyCode |-> 0, shift |-> FALSE] :
     t \in {<<>>, <<"a">>, <<".">>, <<"1", "a">>, <<"1", ".">>}}

\* The objects passed as keys: key undefined, '', '1', '.' or 'Up'; keyCode
\* undefined, 49 or PERIOD; at least one of the two defined.
KeyArgs ==
  {Key(TRUE, k, TRUE, kc) :
     k \in {<<>>, <<"1">>, <<".">>, <<"U", "p">>}, kc \in {49, PERIOD}}
  \cup {Key(TRUE, k, FALSE, 0) : k \in {<<>>, <<"1">>, <<".">>, <<"U", "p">>}}
  \cup {Key(FALSE, <<>>, TRUE, kc) : kc \in {49, PERIOD}}

\* Objects with neither key nor keyCode: {} and {shift: true}.
ModifierArgs ==
  {[Key(FALSE, <<>>, FALSE, 0) EXCEPT !.shift = b] : b \in BOOLEAN}

TypeArgs == StringArgs \cup KeyArgs \cup ModifierArgs

\* The argument lists of a call: no argument at all up to MaxArgs arguments.
ArgLists == UNION {[1 .. n -> TypeArgs] : n \in 0 .. MaxArgs}

\* typeof first !== 'string' && first.keyCode === undefined &&
\* first.key === undefined
FirstIsModifiers(args) ==
  args[1].kind # "string" /\ ~args[1].codeDefined /\ ~args[1].keyDefined

\* modifiers
ModifiersOf(args) == IF FirstIsModifiers(args) THEN args[1].shift ELSE FALSE

\* rest
RestOf(args) == IF FirstIsModifiers(args) THEN Tail(args) ELSE args

\* k.split('').map(c => ({keyCode: c.toUpperCase().charCodeAt(0), key: c}))
KeysOfString(t) ==
  [n \in 1 .. Len(t) |-> Key(TRUE, <<t[n]>>, TRUE, UpperCharCode(t[n]))]

RECURSIVE FlattenKeys(_, _)
\* rest.map(...).reduce((arr, k) => arr.concat(k), []) from position n on
FlattenKeys(rest, n) ==
  IF n > Len(rest) THEN <<>>
  ELSE (IF rest[n].kind = "string" THEN KeysOfString(rest[n].text)
        ELSE <<[rest[n] EXCEPT !.shift = FALSE]>>)
       \o FlattenKeys(rest, n + 1)

\* keys
KeysOf(args) == FlattenKeys(RestOf(args), 1)

\* isTextInput(element)
IsTextInput(node) == node = "input" \/ node = "textarea"

\* element.getAttribute('type') || 'text'
InputTypeOf(attr) == IF attr = "null" THEN "text" ELSE attr

\* key.key !== '.' && key.keyCode !== PERIOD
NotPeriod(key) ==
  /\ ~(key.keyDefined /\ key.key = <<".">>)
  /\ ~(key.codeDefined /\ key.keyCode = PERIOD)

\* enterValueIncrementally
EnterValueIncrementally(inputType, keys) ==
  IF inputType = "number" /\ Len(keys) > 0
  THEN \A n \in 1 .. Len(keys) : NotPeriod(keys[n])
  ELSE inputType \in incrementalInputTypes

\* key.key || ''
KeyText(key) == IF key.keyDefined THEN key.key ELSE <<>>

RECURSIVE WholeValue(_, _)
\* keys.reduce((value, key) => value + (key.key || ''), '') from position n on
WholeValue(keys, n) ==
  IF n > Len(keys) THEN <<>> ELSE KeyText(keys[n]) \o WholeValue(keys, n + 1)

\* The key carried by events that are not keyboard events.
NoKey == Key(FALSE, <<>>, FALSE, 0)

\* dispatchKeyboardEvent(element, type, key.keyCode, key.key, modifiers): the
\* event is logged with the value the element has when it is dispatched.
DispatchKeyboardEvent(st, type, key, modifiers) ==
  [st EXCEPT !.log = Append(@, [ev |-> type, key |-> key, shift |-> modifiers,
                                value |-> st.value])]

\* dispatchFakeEvent(element, type)
DispatchFakeEvent(st, type) ==
  [st EXCEPT !.log = Append(@, [ev |-> type, key |-> NoKey, shift |-> FALSE,
                                value |-> st.value])]

\* triggerFocus(element)
TriggerFocus(st) == DispatchFakeEvent(st, "focus")

\* The body of the loop over the keys, entering keys of any length.
TypeKeyAnyLength(st, key, isInput, incrementally, modifiers) ==
  LET s1 == DispatchKeyboardEvent(st, "keydown", key, modifiers)
      s2 == DispatchKeyboardEvent(s1, "keypress", key, modifiers)
      s3 == IF isInput /\ key.keyDefined /\ Len(key.key) > 0 /\ incrementally
            THEN DispatchFakeEvent([s2 EXCEPT !.value = @ \o key.key], "input")
            ELSE s2
  IN  DispatchKeyboardEvent(s3, "keyup", key, modifiers)

\* The body of the loop over the keys.
TypeKey(st, key, isInput, incrementally, modifiers) ==
  LET s1 == DispatchKeyboardEvent(st, "keydown", key, modifiers)
      s2 == DispatchKeyboardEvent(s1, "keypress", key, modifiers)
      s3 == IF isInput /\ key.keyDefined /\ Len(key.key) = 1 /\ incrementally
            THEN DispatchFakeEvent([s2 EXCEPT !.value = @ \o key.key], "input")
            ELSE s2
  IN  DispatchKeyboardEvent(s3, "keyup", key, modifiers)

RECURSIVE TypeKeys(_, _, _, _, _, _)
\* for (const key of keys) { ... } from position n on
TypeKeys(st, keys, n, isInput, incrementally, modifiers) ==
  IF n > Len(keys) THEN st
  ELSE TypeKeys(TypeKey(st, keys[n], isInput, incrementally, modifiers),
                keys, n + 1, isInput, incrementally, modifiers)

\* typeInElement that assigns the whole value after the loop over the keys.
TypeInElementAssignsLate(node, attr, value, args) ==
  LET modifiers == ModifiersOf(args)
      keys == KeysOf(args)
      isInput == IsTextInput(node)
      incrementally == EnterValueIncrementally(InputTypeOf(attr), keys)
      s0 == TriggerFocus([value |-> value, log |-> <<>>])
      s2 == TypeKeys(s0, keys, 1, isInput, incrementally, modifiers)
  IN  IF ~incrementally
      THEN DispatchFakeEvent([s2 EXCEPT !.value = WholeValue(keys, 1)], "input")
      ELSE s2

\* typeInElement(element, ...modifiersAndKeys) with at least one argument:
\* the value of the element and the events dispatched.
TypeInElementResult(node, attr, value, args) ==
  LET modifiers == ModifiersOf(args)
      keys == KeysOf(args)
      isInput == IsTextInput(node)
      incrementally == EnterValueIncrementally(InputTypeOf(attr), keys)
      s0 == TriggerFocus([value |-> value, log |-> <<>>])
      s1 == IF ~incrementally THEN [s0 EXCEPT !.value = WholeValue(keys, 1)] ELSE s0
      s2 == TypeKeys(s1, keys, 1, isInput, incrementally, modifiers)
  IN  IF ~incrementally THEN DispatchFakeEvent(s2, "input") ELSE s2

\* clearElement(element)
ClearElementResult(value) ==
  DispatchFakeEvent([TriggerFocus([value |-> value, log |-> <<>>])
                       EXCEPT !.value = <<>>], "input")

TiInit ==
  /\ AccIdle /\ SnackIdle /\ CntIdle /\ SanIdle /\ TreeIdle
  /\ OcIdle /\ FabIdle /\ MigIdle
  /\ ti \in [node : NodeNames, type : TypeAttributes, value : {<<>>, <<"x">>},
             stage : {"idle"}, log : {<<>>}, args : {<<>>}, before : {<<>>}]

\* A test calls typeInElement(element, ...args) on a fresh element. Without
\* any argument the read of first.keyCode throws a TypeError before anything
\* is done.
TypeInElement ==
  /\ tiStage = "idle"
  /\ \E args \in ArgLists :
       ti' = IF Len(args) = 0
             THEN [ti EXCEPT !.stage = "error", !.args = args, !.log = <<>>,
                             !.before = tiValue]
             ELSE LET result == TypeInElementResult(tiNode, tiType, tiValue, args)
                  IN  [ti EXCEPT !.stage = "typed", !.args = args,
                                 !.value = result.value, !.log = result.log,
                                 !.before = tiValue]
  /\ UNCHANGED tiFrame

\* A test calls clearElement(element) after typing.
ClearElement ==
  /\ tiStage = "typed"
  /\ ti' = [ti EXCEPT !.stage = "cleared",
                      !.before = tiValue,
                      !.value = ClearElementResult(tiValue).value,
                      !.log = ClearElementResult(tiValue).log]
  /\ UNCHANGED tiFrame

TiNext ==
  \/ TypeInElement
  \/ ClearElement

SpecTypeIn == TiInit /\ [][TiNext]_vars

\* A key that is a single character.
SingleCharacter(key) == key.keyDefined /\ Len(key.key) = 1

RECURSIVE IncrementalEvents(_, _)
\* Per key from position n on: keydown, keypress, input for a
\* single-character key, keyup; each paired with the position of its key.
IncrementalEvents(keys, n) ==
  IF n > Len(keys) THEN <<>>
  ELSE <<<<"keydown", n>>, <<"keypress", n>>>>
       \o (IF SingleCharacter(keys[n]) THEN <<<<"input", n>>>> ELSE <<>>)
       \o <<<<"keyup", n>>>>
       \o IncrementalEvents(keys, n + 1)

RECURSIVE SingleCharacters(_, _)
\* The single-character keys from position n on, in order, as a string.
SingleCharacters(keys, n) ==
  IF n > Len(keys) THEN <<>>
  ELSE (IF SingleCharacter(keys[n]) THEN keys[n].key ELSE <<>>)
       \o SingleCharacters(keys, n + 1)

\* What the last typeInElement call did is an incremental entry: focus first,
\* then per key keydown, keypress, input (single-character keys only), keyup;
\* the value is the value before followed by the single-character keys, with
\* one input event per single-character key.
EnteredIncrementally ==
  LET keys == KeysOf(tiArgs)
      expected == IncrementalEvents(keys, 1)
      body == Tail(tiLog)
  IN  /\ Len(tiLog) >= 1 /\ tiLog[1].ev = "focus"
      /\ Len(body) = Len(expected)
      /\ \A m \in 1 .. Len(body) :
           /\ body[m].ev = expected[m][1]
           /\ body[m].ev # "input" => body[m].key = keys[expected[m][2]]
      /\ tiValue = tiBefore \o SingleCharacters(keys, 1)
      /\ Cardinality({m \in 1 .. Len(tiLog) : tiLog[m].ev = "input"})
           = Cardinality({n \in 1 .. Len(keys) : SingleCharacter(keys[n])})

\* A text input or textarea whose type is one of the seven text-like types.
TextLikeInput ==
  IsTextInput(tiNode) /\ InputTypeOf(tiType) \in incrementalInputTypes

\* A number input typed into without a '.' key (by key or by keyCode).
NumberWithoutPeriod ==
  /\ IsTextInput(tiNode) /\ InputTypeOf(tiType) = "number"
  /\ \A n \in 1 .. Len(KeysOf(tiArgs)) : NotPeriod(KeysOf(tiArgs)[n])

\* C7 as stated: typing into a text input or textarea of a text-like type, or
\* of type number without a '.' key, is an incremental entry.
C7_Original ==
  (tiStage = "typed" /\ (TextLikeInput \/ NumberWithoutPeriod))
    => EnteredIncrementally

\* C7: typing into a text input or textarea of a text-like type, or of type
\* number with at least one key and no '.' key, is an incremental entry:
\* focus first, per key keydown, keypress, input (single-character keys
\* only), keyup, and the value is the value before followed by the
\* single-character keys, one input event for each.
C7_IncrementalTyping ==
  (tiStage = "typed"
     /\ (TextLikeInput \/ (NumberWithoutPeriod /\ Len(KeysOf(tiArgs)) > 0)))
    => EnteredIncrementally

\* C7 witness: '1' and then the key 'Up' were typed into a number input
\* holding 'x'; the value is 'x1' and eight events were dispatched.
C7_Witness ==
  /\ tiStage = "typed"
  /\ tiNode = "input" /\ tiType = "number"
  /\ tiBefore = <<"x">>
  /\ Len(tiArgs) = 2 /\ Len(KeysOf(tiArgs)) = 2
  /\ KeysOf(tiArgs)[2].key = <<"U", "p">>
  /\ tiValue = <<"x", "1">>
  /\ Len(tiLog) = 8

\* A number input typed into with a '.' key (by key or by keyCode) among the
\* keys.
NumberWithPeriod ==
  /\ IsTextInput(tiNode) /\ InputTypeOf(tiType) = "number"
  /\ \E n \in 1 .. Len(KeysOf(tiArgs)) : ~NotPeriod(KeysOf(tiArgs)[n])

\* A text input or textarea of a type that is neither number nor one of the
\* seven text-like types.
OtherTypeInput ==
  IsTextInput(tiNode) /\ InputTypeOf(tiType) \notin incrementalInputTypes \cup {"number"}

\* What the last typeInElement call did is an entry at once: focus, then per
\* key keydown, keypress, keyup and nothing else, then one input event; the
\* element holds the concatenation of the keys' key strings at every key
\* event, at the input event and afterwards.
EnteredAtOnce ==
  LET keys == KeysOf(tiArgs)
      whole == WholeValue(keys, 1)
  IN  /\ tiValue = whole
      /\ Len(tiLog) = 3 * Len(keys) + 2
      /\ tiLog[1].ev = "focus"
      /\ \A n \in 1 .. Len(keys) :
           /\ tiLog[3 * n - 1].ev = "keydown"
           /\ tiLog[3 * n].ev = "keypress"
           /\ tiLog[3 * n + 1].ev = "keyup"
           /\ \A m \in {3 * n - 1, 3 * n, 3 * n + 1} :
                tiLog[m].key = keys[n] /\ tiLog[m].value = whole
      /\ tiLog[Len(tiLog)].ev = "input"
      /\ tiLog[Len(tiLog)].value = whole
      /\ Cardinality({m \in 1 .. Len(tiLog) : tiLog[m].ev = "input"}) = 1

\* C17: typing into a number input with a '.' key among the keys, or into an
\* input of a type such as date, assigns the concatenation of the keys' key
\* strings before any key event, dispatches no input event between the key
\* events and dispatches exactly one input event after the last keyup.
C17_WholeValueTyping ==
  (tiStage = "typed" /\ (NumberWithPeriod \/ OtherTypeInput)) => EnteredAtOnce

\* C17 witness: '1.' was typed into a number input holding 'x'; the value is
\* '1.' at the first keydown already and the eighth and last event is input.
C17_Witness ==
  /\ tiStage = "typed"
  /\ tiNode = "input" /\ tiType = "number"
  /\ tiBefore = <<"x">>
  /\ Len(tiArgs) = 1 /\ tiArgs[1].kind = "string" /\ tiArgs[1].text = <<"1", ".">>
  /\ tiValue = <<"1", ".">>
  /\ Len(tiLog) = 8
  /\ tiLog[2].ev = "keydown" /\ tiLog[2].value = <<"1", ".">>
  /\ tiLog[8].ev = "input"

(***************************************************************************)
(* InputNamesMigration.visitTemplate and _replaceInputName. A template is  *)
(* the sequence of its elements; names are sequences of characters.        *)
(***************************************************************************)
MaxElements == 2

\* The outdated input name and its replacement.
OldName == <<"o", "l", "d">>
NewName == <<"n", "e", "w", "e", "r">>

\* An element: its tag, whether it carries the attribute "attr", whether it
\* carries the outdated input as old="..." and whether as [old]="...".
TemplateElements ==
  [tag : {"el", "other"}, marked : BOOLEAN, plain : BOOLEAN, bracketed : BOOLEAN]

Templates == UNION {[1 .. n -> TemplateElements] : n \in 0 .. MaxElements}

\* limitedTo.attributes and limitedTo.elements: undefined or a list of names.
NotLimited == [given |-> FALSE, names |-> {}]
LimitedToOptions ==
  [attributes : {NotLimited, [given |-> TRUE, names |-> {"attr"}]},
   elements : {NotLimited, [given |-> TRUE, names |-> {"el"}]}]

\* The upgrade data of the target version: no entry, or one entry.
InputNameData ==
  {<<>>} \cup {<<[replace |-> OldName, replaceWith |-> NewName, limitedTo |-> l]>> :
                 l \in LimitedToOptions}

\* The offset in the content of an attribute of element k: elements are 40
\* characters apart, old= sits at 10 and [old]= at 20 within the element.
AttributeOffset(k, bracketed) == (k - 1) * 40 + (IF bracketed THEN 20 ELSE 10)

\* The attributes of an element, by name.
HasAttribute(e, bracketed) == IF bracketed THEN e.bracketed ELSE e.plain

\* findAttributeOnElementWithTag / findAttributeOnElementWithAttr: the
\* offsets of the attribute on the elements that match (given by their
\* positions), in document order.
FindAttribute(content, matching, bracketed) ==
  SortedSeq({AttributeOffset(k, bracketed) :
               k \in {n \in matching : HasAttribute(content[n], bracketed)}},
            "asc")

\* The offsets of the input on the matching elements: the plain attributes,
\* then the bracketed ones moved by one column past the bracket.
FindInputs(content, matching) ==
  FindAttribute(content, matching, FALSE)
  \o [n \in 1 .. Len(FindAttribute(content, matching, TRUE)) |->
        FindAttribute(content, matching, TRUE)[n] + 1]

\* findInputsOnElementWithAttr(html, inputName, attrs)
findInputsOnElementWithAttr(content, attrs) ==
  FindInputs(content, {n \in 1 .. Len(content) : content[n].marked /\ "attr" \in attrs})

\* findInputsOnElementWithTag(html, inputName, tagNames)
findInputsOnElementWithTag(content, tagNames) ==
  FindInputs(content, {n \in 1 .. Len(content) : content[n].tag \in tagNames})

\* relativeOffsets of visitTemplate for one entry of the data
RelativeOffsets(content, limitedTo) ==
  (IF limitedTo.attributes.given
   THEN findInputsOnElementWithAttr(content, limitedTo.attributes.names)
   ELSE <<>>)
  \o (IF limitedTo.elements.given
      THEN findInputsOnElementWithTag(content, limitedTo.elements.names)
      ELSE <<>>)

\* _replaceInputName(filePath, start, width, newName): the two calls made on
\* the update recorder of the file.
ReplaceInputName(edits, start, width, newName) ==
  edits \o <<[op |-> "remove", start |-> start, width |-> width, text |-> <<>>],
             [op |-> "insertRight", start |-> start, width |-> 0, text |-> newName]>>

RECURSIVE ReplaceEach(_, _, _, _, _)
\* relativeOffsets.map(offset => template.start + offset).forEach(...) from
\* position n on
ReplaceEach(edits, offsets, n, start, name) ==
  IF n > Len(offsets) THEN edits
  ELSE ReplaceEach(ReplaceInputName(edits, start + offsets[n], Len(name.replace),
                                    name.replaceWith),
                   offsets, n + 1, start, name)

RECURSIVE VisitTemplateFrom(_, _, _, _, _)
\* this.data.forEach(name => ...) from entry n on
VisitTemplateFrom(edits, data, n, content, start) ==
  IF n > Len(data) THEN edits
  ELSE VisitTemplateFrom(
         ReplaceEach(edits, RelativeOffsets(content, data[n].limitedTo), 1, start, data[n]),
         data, n + 1, content, start)

\* `[${name}]`
AttributeSelector(name) == <<"[">> \o name \o <<"]">>

\* The stylesheets visited: '', '[old]', 'el[old]', '[old][old]', 'old',
\* '[[old]]' and '[older]'.
Stylesheets ==
  {<<>>,
   AttributeSelector(OldName),
   <<"e", "l">> \o AttributeSelector(OldName),
   AttributeSelector(OldName) \o AttributeSelector(OldName),
   OldName,
   AttributeSelector(AttributeSelector(OldName)),
   <<"[">> \o OldName \o <<"e", "r", "]">>}

\* findAllSubstringIndices(input, search): the indices, from 0, at which
\* search occurs in input, in ascending order.
findAllSubstringIndices(input, search) ==
  SortedSeq({i \in 0 .. (Len(input) - Len(search)) :
               SubSeq(input, i + 1, i + Len(search)) = search},
            "asc")

RECURSIVE ReplaceSelectorEach(_, _, _, _, _)
\* findAllSubstringIndices(...).map(offset => stylesheet.start + offset)
\* .forEach(...) from position n on
ReplaceSelectorEach(edits, offsets, n, start, name) ==
  IF n > Len(offsets) THEN edits
  ELSE ReplaceSelectorEach(
         ReplaceInputName(edits, start + offsets[n],
                          Len(AttributeSelector(name.replace)),
                          AttributeSelector(name.replaceWith)),
         offsets, n + 1, start, name)

RECURSIVE VisitStylesheetFrom(_, _, _, _, _)
\* this.data.forEach(name => ...) of visitStylesheet from entry n on
VisitStylesheetFrom(edits, data, n, content, start) ==
  IF n > Len(data) THEN edits
  ELSE VisitStylesheetFrom(
         ReplaceSelectorEach(
           edits, findAllSubstringIndices(content, AttributeSelector(data[n].replace)),
           1, start, data[n]),
         data, n + 1, content, start)

\* The migration is constructed with the upgrade data of the target version.
MigInit ==
  /\ AccIdle /\ SnackIdle /\ CntIdle /\ SanIdle /\ TreeIdle
  /\ OcIdle /\ TiIdle /\ FabIdle
  /\ mig \in [data : InputNameData, template : {<<>>}, start : {0},
              stylesheet : {<<>>}, sheetStart : {0}, edits : {<<>>},
              visited : {{}}, stage : {"idle"}]

\* visitTemplate(template) on a template that starts at 0 (an external
\* template) or at 100 (an inline template) of its file. The update tool
\* visits a resource once; the calls are added to those recorded so far.
VisitTemplate ==
  /\ "template" \notin migVisited
  /\ \E content \in Templates, start \in {0, 100} :
       mig' = [mig EXCEPT !.template = content, !.start = start, !.stage = "visited",
                          !.visited = @ \cup {"template"},
                          !.edits = VisitTemplateFrom(@, migData, 1, content, start)]
  /\ UNCHANGED migFrame

\* visitStylesheet(stylesheet) on a stylesheet that starts at 0 (an external
\* stylesheet) or at 50 (an inline one) of its file.
VisitStylesheet ==
  /\ "stylesheet" \notin migVisited
  /\ \E content \in Stylesheets, start \in {0, 50} :
       mig' = [mig EXCEPT !.stylesheet = content, !.sheetStart = start,
                          !.stage = "visited",
                          !.visited = @ \cup {"stylesheet"},
                          !.edits = VisitStylesheetFrom(@, migData, 1, content, start)]
  /\ UNCHANGED migFrame

MigNext ==
  \/ VisitTemplate
  \/ VisitStylesheet

SpecMigration == MigInit /\ [][MigNext]_vars

\* Element e is matched by the attribute or the element restriction.
MatchedBy(e, limitedTo) ==
  \/ limitedTo.attributes.given /\ e.marked /\ "attr" \in limitedTo.attributes.names
  \/ limitedTo.elements.given /\ e.tag \in limitedTo.elements.names

\* The number of recorded edits equal to edit.
EditCount(edit) ==
  Cardinality({n \in 1 .. Len(migEdits) : migEdits[n] = edit})

\* C18 as stated: after visitTemplate, for every entry of the data and every
\* occurrence of its outdated name on an element matched by the attribute or
\* the element restriction, exactly one removal of the old name's width and
\* exactly one insertion of the new name are recorded at template.start +
\* offset.
C18_ReplacedExactlyOnce ==
  "template" \in migVisited =>
    \A d \in 1 .. Len(migData), k \in 1 .. Len(migTemplate), bracketed \in BOOLEAN :
      (HasAttribute(migTemplate[k], bracketed)
         /\ MatchedBy(migTemplate[k], migData[d].limitedTo))
        => LET at == migStart + AttributeOffset(k, bracketed)
                       + (IF bracketed THEN 1 ELSE 0)
           IN  /\ EditCount([op |-> "remove", start |-> at,
                             width |-> Len(migData[d].replace), text |-> <<>>]) = 1
               /\ EditCount([op |-> "insertRight", start |-> at, width |-> 0,
                             text |-> migData[d].replaceWith]) = 1

====
